---- MODULE Spec2Model ----
(***************************************************************************)
(* Model of the fulfillment optimization pipeline.                         *)
(*                                                                         *)
(*   src/src/optimize_logistics.py  WORKERS, get_order_data,               *)
(*                                  optimize_schedule, save_results,       *)
(*                                  and the __main__ entry point           *)
(*   src/src/main.py                run_script, main                       *)
(*                                                                         *)
(* Arithmetic.  The code computes hours = items / speed and                *)
(* cost = hours * wage in floating point.  The model keeps the exact       *)
(* rational values: a cost is carried multiplied by Scale(W), the least    *)
(* common multiple of the registry's speeds, and a capacity row            *)
(* sum (items/speed) * x <= max_hours is compared after multiplying both   *)
(* sides by speed.  Binary variables take the values 0 and 1, so           *)
(* "varValue > 0.5" is 2 * value > 1.                                      *)
(*                                                                         *)
(* Solver.  prob.solve(PULP_CBC_CMD) is an exact integer-programming       *)
(* solver: it ends Optimal with some cost-minimal point of the feasible    *)
(* set the model describes (which one is the solver's choice), or          *)
(* Infeasible when that set is empty.                                      *)
(***************************************************************************)
EXTENDS Integers, Sequences, FiniteSets, TLC

VARIABLES
    WORKERS,       \* the registry: sequence (key order) of worker records
    clean_orders,  \* rows of the clean_orders view in the database
    entry,         \* which program runs: "none", "optimize_logistics", "main"
    pc,            \* position of the running program
    stage,         \* main.main: index of the script stage being run
    df,            \* the loaded order frame (sequence of rows)
    prob,          \* [status, objective] of the LpProblem
    choices,       \* varValue of choices[oid][worker] after the solve
    results,       \* records returned by save_results (<<>>: none)
    prev,          \* history: the solved run that max_hours was raised after
                   \* (kept across runs of optimize_logistics only)
    log            \* the stage lines main's logger has written in this run

vars == <<WORKERS, clean_orders, entry, pc, stage, df, prob, choices, results, prev, log>>

----------------------------------------------------------------------------
(* Bounds of the explored inputs *)

MaxOrders == 2
MaxItems  == 2
MaxHours  == 2
Speeds    == {1, 2}
Wages     == {1, 2}
Names     == <<"A", "B">>

----------------------------------------------------------------------------
(* Helpers *)

RECURSIVE SeqSum(_)
SeqSum(s) == IF s = <<>> THEN 0 ELSE Head(s) + SeqSum(Tail(s))

RECURSIVE Gcd(_, _)
Gcd(a, b) == IF b = 0 THEN a ELSE Gcd(b, a % b)

\* least common multiple of a sequence of positive numbers
RECURSIVE SeqLcm(_)
SeqLcm(s) ==
    IF s = <<>> THEN 1
    ELSE LET r == SeqLcm(Tail(s)) IN (Head(s) \div Gcd(Head(s), r)) * r

MinOf(S) == CHOOSE m \in S : \A k \in S : m <= k

----------------------------------------------------------------------------
(* The worker registry *)

Worker(n, s, w, h) == [name |-> n, speed |-> s, wage |-> w, max_hours |-> h]

\* optimize_logistics.WORKERS as configured in the source
DefaultWorkers ==
    << Worker("Junior", 25, 16, 9999),
       Worker("Senior", 65, 28, 16),
       Worker("Robot", 140, 5, 8) >>

\* worker_names = list(WORKERS.keys())
worker_names(W) == [i \in 1..Len(W) |-> W[i].name]

\* WORKERS[worker]
Cfg(W, worker) == W[CHOOSE i \in 1..Len(W) : W[i].name = worker]

\* common denominator of the hours and costs of a registry
Scale(W) == SeqLcm([i \in 1..Len(W) |-> W[i].speed])

----------------------------------------------------------------------------
(* The order frame *)

Row(oid, n) == [order_id |-> oid, num_items |-> n]

\* order_ids = df['order_id'].tolist(), as the key set of the variables
OidSet(d) == {d[i].order_id : i \in 1..Len(d)}
NameSet(W) == {W[i].name : i \in 1..Len(W)}

----------------------------------------------------------------------------
(* optimize_schedule: the model that is built *)

\* pulp.LpVariable.dicts("Assign", (order_ids, worker_names), 0, 1, LpBinary)
VarMatrices(d, W) == [OidSet(d) -> [NameSet(W) -> {0, 1}]]

\* variant: the wage is left out, the coefficient is the hours alone
CostToPackHours(items, worker, W) ==
    items * (Scale(W) \div Cfg(W, worker).speed)

\* variant: the hours are computed with integer division (items // speed)
CostToPackFloorDiv(items, worker, W) ==
    (items \div Cfg(W, worker).speed) * Cfg(W, worker).wage * Scale(W)

\* cost_to_pack = (items / speed) * wage, times Scale(W)
CostToPack(items, worker, W) ==
    items * Cfg(W, worker).wage * (Scale(W) \div Cfg(W, worker).speed)

\* total_costs = lpSum(cost_to_pack * choices[oid][worker])
Objective(x, d, W) ==
    SeqSum([i \in 1..Len(d) |->
        SeqSum([j \in 1..Len(W) |->
            CostToPack(d[i].num_items, W[j].name, W) * x[d[i].order_id][W[j].name]])])

\* variant: "<= 1" written for "== 1"
SingleOwnershipAtMost(x, d, W) ==
    \A i \in 1..Len(d) :
        SeqSum([j \in 1..Len(W) |-> x[d[i].order_id][W[j].name]]) <= 1

\* lpSum(choices[oid][w] for w in worker_names) == 1, for every order
SingleOwnership(x, d, W) ==
    \A i \in 1..Len(d) :
        SeqSum([j \in 1..Len(W) |-> x[d[i].order_id][W[j].name]]) = 1

\* variant: ">=" written for "<="
MaxCapacityReversed(x, d, W) ==
    \A j \in 1..Len(W) :
        SeqSum([i \in 1..Len(d) |-> d[i].num_items * x[d[i].order_id][W[j].name]])
            >= W[j].max_hours * W[j].speed

\* variant: "<" written for "<="
MaxCapacityStrict(x, d, W) ==
    \A j \in 1..Len(W) :
        SeqSum([i \in 1..Len(d) |-> d[i].num_items * x[d[i].order_id][W[j].name]])
            < W[j].max_hours * W[j].speed

\* lpSum((items / speed) * choices[oid][worker]) <= limit, for every worker
MaxCapacity(x, d, W) ==
    \A j \in 1..Len(W) :
        SeqSum([i \in 1..Len(d) |-> d[i].num_items * x[d[i].order_id][W[j].name]])
            <= W[j].max_hours * W[j].speed

\* variant: the capacity rows are never added to the problem
FeasibleSetNoCapacity(d, W) ==
    {x \in VarMatrices(d, W) : SingleOwnership(x, d, W)}

\* the feasible set of the built problem
FeasibleSet(d, W) ==
    {x \in VarMatrices(d, W) : SingleOwnership(x, d, W) /\ MaxCapacity(x, d, W)}

\* variant: the problem is created with LpMaximize
OptimalSetMax(d, W) ==
    LET F == FeasibleSet(d, W)
    IN  {x \in F : \A y \in F : Objective(x, d, W) >= Objective(y, d, W)}

\* the points CBC may return with status Optimal
OptimalSet(d, W) ==
    LET F == FeasibleSet(d, W)
    IN  {x \in F : \A y \in F : Objective(x, d, W) <= Objective(y, d, W)}

Unsolved == [status |-> "Not Solved", objective |-> 0]
NoPrev   == [set |-> FALSE, WORKERS |-> <<>>, status |-> "Not Solved", objective |-> 0]

----------------------------------------------------------------------------
(* save_results *)

\* variant: the comparison with 0.5 is reversed
SelectedBelow(x, oid, workers) ==
    LET hit == {j \in 1..Len(workers) : 2 * x[oid][workers[j]] < 1}
    IN  IF hit = {} THEN 0 ELSE MinOf(hit)

\* the first worker, in key order, whose variable exceeds 0.5 (0: none)
Selected(x, oid, workers) ==
    LET hit == {j \in 1..Len(workers) : 2 * x[oid][workers[j]] > 1}
    IN  IF hit = {} THEN 0 ELSE MinOf(hit)

\* WORKERS[None] raises KeyError when no variable of an order exceeds 0.5
SaveRaises(d, x, workers) ==
    \E i \in 1..Len(d) : Selected(x, d[i].order_id, workers) = 0

\* the records appended in the loop over df.iterrows(); cost times Scale(W)
save_results(d, x, workers, W) ==
    [i \in 1..Len(d) |->
        LET assigned_worker == workers[Selected(x, d[i].order_id, workers)]
        IN  [order_id        |-> d[i].order_id,
             assigned_worker |-> assigned_worker,
             cost            |-> CostToPack(d[i].num_items, assigned_worker, W)]]

----------------------------------------------------------------------------
(* Inputs *)

GenericRegistries ==
    UNION {
        {[i \in 1..n |-> Worker(Names[i], c[i].speed, c[i].wage, c[i].max_hours)] :
            c \in [1..n -> [speed : Speeds, wage : Wages, max_hours : 0..MaxHours]]}
        : n \in 1..Len(Names)}

\* order ids 1..n and item counts >= 1, as generate_data numbers and clips them
ValidCatalogs ==
    UNION {
        {[i \in 1..n |-> Row(i, c[i])] : c \in [1..n -> 1..MaxItems]}
        : n \in 1..MaxOrders}

\* an item count of 0 is a row the clean_orders view lets through (it only
\* drops NULL counts)
ZeroCatalogs ==
    {<<Row(1, 0)>>} \cup {<<Row(1, k), Row(2, 0)>> : k \in 1..MaxItems}

Catalogs == ValidCatalogs \cup ZeroCatalogs

\* the worked scenario of the specification: item counts [10, 20, 200],
\* type A (100 items/hr, $10/hr, 1 hour), type B (10 items/hr, $1/hr,
\* unbounded, written with the finite sentinel the source uses)
ScenarioWorkers == << Worker("A", 100, 10, 1), Worker("B", 10, 1, 9999) >>
ScenarioOrders  == << Row(1, 10), Row(2, 20), Row(3, 200) >>

\* one order that fills the hours of the "effectively infinite" worker type
\* of the source exactly, and one that is a single item larger
SentinelItems == DefaultWorkers[1].max_hours * DefaultWorkers[1].speed
BulkCatalogs == {<<Row(1, SentinelItems)>>, <<Row(1, SentinelItems + 1)>>}

----------------------------------------------------------------------------
(* The programs *)

Scripts == << "generate_data", "setup_db", "analyze_corruption", "clean_data" >>

Terminal == {"Extracted", "Rejected", "exit1", "crashed"}

Init ==
    /\ \/ WORKERS \in GenericRegistries /\ clean_orders \in Catalogs
       \/ WORKERS = DefaultWorkers /\ clean_orders \in Catalogs \cup BulkCatalogs
       \/ WORKERS = ScenarioWorkers /\ clean_orders = ScenarioOrders
    /\ entry = "none"
    /\ pc = "idle"
    /\ stage = 0
    /\ df = <<>>
    /\ prob = Unsolved
    /\ choices = <<>>
    /\ results = <<>>
    /\ prev = NoPrev
    /\ log = <<>>

\* a fresh process: nothing of an earlier run survives but the database
Fresh ==
    /\ df' = <<>>
    /\ prob' = Unsolved
    /\ choices' = <<>>
    /\ results' = <<>>
    /\ log' = <<>>

\* python src/optimize_logistics.py
LaunchOptimize ==
    /\ pc \in {"idle"} \cup Terminal
    /\ entry' = "optimize_logistics"
    /\ pc' = "get_order_data"
    /\ stage' = 0
    /\ Fresh
    /\ UNCHANGED <<WORKERS, clean_orders, prev>>

\* get_order_data(): SELECT * FROM clean_orders
GetOrderData ==
    /\ pc = "get_order_data"
    /\ df' = clean_orders
    /\ pc' = "optimize_schedule"
    /\ UNCHANGED <<WORKERS, clean_orders, entry, stage, prob, choices, results, prev, log>>

\* optimize_schedule(df): build the problem and solve it
OptimizeSchedule ==
    /\ pc = "optimize_schedule"
    /\ IF FeasibleSet(df, WORKERS) = {}
       THEN /\ prob' = [status |-> "Infeasible", objective |-> 0]
            /\ choices' = <<>>
       ELSE \E x \in OptimalSet(df, WORKERS) :
            /\ prob' = [status |-> "Optimal", objective |-> Objective(x, df, WORKERS)]
            /\ choices' = x
    /\ pc' = "solved"
    /\ UNCHANGED <<WORKERS, clean_orders, entry, stage, df, results, prev, log>>

\* variant: save_results is called whatever the status, and returns a record
\* for every row
SaveResultsAlways ==
    /\ pc = "solved"
    /\ results' = [i \in 1..Len(df) |->
                     [order_id |-> df[i].order_id, assigned_worker |-> "None", cost |-> 0]]
    /\ pc' = "Extracted"
    /\ UNCHANGED <<WORKERS, clean_orders, entry, stage, df, prob, choices, prev, log>>

\* __main__: if LpStatus[prob.status] == "Optimal": save_results(...)
SaveResults ==
    /\ pc = "solved"
    /\ prob.status = "Optimal"
    /\ IF SaveRaises(df, choices, worker_names(WORKERS))
       THEN /\ results' = <<>>
            /\ pc' = "crashed"
       ELSE /\ results' = save_results(df, choices, worker_names(WORKERS), WORKERS)
            /\ pc' = "Extracted"
    /\ UNCHANGED <<WORKERS, clean_orders, entry, stage, df, prob, choices, prev, log>>

\* __main__: the status is not Optimal, the script ends without extraction
SkipResults ==
    /\ pc = "solved"
    /\ prob.status # "Optimal"
    /\ pc' = "Rejected"
    /\ UNCHANGED <<WORKERS, clean_orders, entry, stage, df, prob, choices, results, prev, log>>

\* between two runs the configuration gives one worker type one more hour
RaiseMaxHours ==
    /\ pc \in {"Extracted", "Rejected"}
    /\ \E j \in 1..Len(WORKERS) :
        /\ WORKERS[j].max_hours < MaxHours
        /\ WORKERS' = [WORKERS EXCEPT ![j].max_hours = @ + 1]
    /\ prev' = [set |-> TRUE, WORKERS |-> WORKERS,
                status |-> prob.status, objective |-> prob.objective]
    /\ entry' = "none"
    /\ pc' = "idle"
    /\ stage' = 0
    /\ Fresh
    /\ UNCHANGED clean_orders

\* python src/main.py
LaunchMain ==
    /\ pc \in {"idle"} \cup Terminal
    /\ entry' = "main"
    /\ pc' = "run_script"
    /\ stage' = 1
    /\ Fresh
    /\ prev' = NoPrev
    /\ UNCHANGED <<WORKERS, clean_orders>>

\* a line of the logger: what it reports, and the stage it is about
Line(event, name) == [event |-> event, stage |-> name]

\* variant: the failure is logged but sys.exit(1) is missing, main goes on
RunScriptContinues ==
    /\ pc = "run_script"
    /\ \E returncode \in {0, 1} :
        log' = log \o << Line("Running", Scripts[stage]),
                         Line(IF returncode = 0 THEN "completed" ELSE "FAILED",
                              Scripts[stage]) >>
    /\ IF stage < Len(Scripts)
       THEN stage' = stage + 1 /\ pc' = "run_script"
       ELSE stage' = stage /\ pc' = "load_data"
    /\ UNCHANGED <<WORKERS, clean_orders, entry, df, prob, choices, results, prev>>

\* run_script(Scripts[stage]): the subprocess ends with exit status 0, or
\* with another status, and then sys.exit(1) stops main
RunScript ==
    /\ pc = "run_script"
    /\ \E returncode \in {0, 1} :
        IF returncode = 0
        THEN /\ log' = log \o << Line("Running", Scripts[stage]),
                                  Line("completed", Scripts[stage]) >>
             /\ IF stage < Len(Scripts)
                THEN stage' = stage + 1 /\ pc' = "run_script"
                ELSE stage' = stage /\ pc' = "load_data"
        ELSE /\ log' = log \o << Line("Running", Scripts[stage]),
                                  Line("FAILED", Scripts[stage]) >>
             /\ stage' = stage
             /\ pc' = "exit1"
    /\ UNCHANGED <<WORKERS, clean_orders, entry, df, prob, choices, results, prev>>

\* main: "Starting Optimization Engine...", then
\* clean_df = pd.read_sql_query("SELECT * FROM clean_orders", conn)
MainLoadData ==
    /\ pc = "load_data"
    /\ log' = Append(log, Line("Running", "optimization"))
    /\ df' = clean_orders
    /\ pc' = "solve_model"
    /\ UNCHANGED <<WORKERS, clean_orders, entry, stage, prob, choices, results, prev>>

\* main: optimize_logistics.solve_model(clean_df).  The module defines no
\* solve_model, so the attribute lookup raises AttributeError and main ends
\* with a traceback; the statements after it are never reached.
MainSolveModel ==
    /\ pc = "solve_model"
    /\ pc' = "crashed"
    /\ UNCHANGED <<WORKERS, clean_orders, entry, stage, df, prob, choices, results, prev, log>>

Next ==
    \/ LaunchOptimize
    \/ GetOrderData
    \/ OptimizeSchedule
    \/ SaveResults
    \/ SkipResults
    \/ RaiseMaxHours
    \/ LaunchMain
    \/ RunScript
    \/ MainLoadData
    \/ MainSolveModel

Spec == Init /\ [][Next]_vars

----------------------------------------------------------------------------
(* Vocabulary of the properties, written without the operators of the     *)
(* built problem so that each property is decided by the solve's result   *)

\* the problem has been solved in this run
SolveDone == pc \in {"solved", "Extracted", "Rejected"}

SolvedOptimal == SolveDone /\ prob.status = "Optimal"

\* the worker types whose variable for row i exceeds 0.5
Chosen(i) == {j \in 1..Len(WORKERS) : 2 * choices[df[i].order_id][WORKERS[j].name] > 1}

\* items the returned variables put on worker type j
LoadOn(j) ==
    SeqSum([i \in 1..Len(df) |-> IF j \in Chosen(i) THEN df[i].num_items ELSE 0])

\* (items / speed) * wage of row i on worker type j, times Scale(W)
PackCost(d, W, i, j) == d[i].num_items * W[j].wage * (Scale(W) \div W[j].speed)

\* the assignments of every order to one worker type, and those that keep
\* every worker type within its max_hours
Assignments(d, W) == [1..Len(d) -> 1..Len(W)]

WithinHours(a, d, W) ==
    \A j \in 1..Len(W) :
        SeqSum([i \in 1..Len(d) |-> IF a[i] = j THEN d[i].num_items ELSE 0])
            <= W[j].max_hours * W[j].speed

Respecting(d, W) == {a \in Assignments(d, W) : WithinHours(a, d, W)}

AssignmentCost(a, d, W) == SeqSum([i \in 1..Len(d) |-> PackCost(d, W, i, a[i])])

\* valid input: positive item counts and positive throughputs
ValidInput(d, W) ==
    /\ \A i \in 1..Len(d) : d[i].num_items > 0
    /\ \A j \in 1..Len(W) : W[j].speed > 0

TotalItems(d) == SeqSum([i \in 1..Len(d) |-> d[i].num_items])
TotalMaxHours(W) == SeqSum([j \in 1..Len(W) |-> W[j].max_hours])
MaxOf(S) == CHOOSE m \in S : \A k \in S : m >= k
SlowestSpeed(W) == MinOf({W[j].speed : j \in 1..Len(W)})
FastestSpeed(W) == MaxOf({W[j].speed : j \in 1..Len(W)})

----------------------------------------------------------------------------
(* C1: single ownership.  After an Optimal solve every order has exactly  *)
(* one worker type whose variable is 1 (value > 0.5) and all its other    *)
(* variables are 0: no order is split or left unassigned.                 *)
C1_SingleOwnership ==
    SolvedOptimal =>
        \A i \in 1..Len(df) :
            /\ Cardinality(Chosen(i)) = 1
            /\ \A j \in 1..Len(WORKERS) :
                choices[df[i].order_id][WORKERS[j].name] = (IF j \in Chosen(i) THEN 1 ELSE 0)

\* two orders of an Optimal solve owned by two different worker types
C1_Witness ==
    /\ SolvedOptimal
    /\ \E i, k \in 1..Len(df) : i # k /\ Chosen(i) # Chosen(k)
           /\ Chosen(i) # {} /\ Chosen(k) # {}

(* C2: capacity.  After an Optimal solve, for every worker type the sum   *)
(* of num_items / speed over the orders assigned to it is at most its     *)
(* max_hours.                                                             *)
C2_Capacity ==
    SolvedOptimal =>
        \A j \in 1..Len(WORKERS) :
            LoadOn(j) <= WORKERS[j].max_hours * WORKERS[j].speed

\* a worker type filled exactly to its max_hours while another order had to
\* go to a type that costs more for it
C2_Witness ==
    /\ SolvedOptimal
    /\ \E j \in 1..Len(WORKERS) :
        /\ LoadOn(j) > 0
        /\ LoadOn(j) = WORKERS[j].max_hours * WORKERS[j].speed
        /\ \E i \in 1..Len(df), k \in 1..Len(WORKERS) :
            /\ k \in Chosen(i)
            /\ PackCost(df, WORKERS, i, k) > PackCost(df, WORKERS, i, j)

(* C3: cost-minimality.  After an Optimal solve the total cost            *)
(* sum (num_items / speed) * wage of the returned assignment equals the   *)
(* minimum total cost over all assignments that give each order one       *)
(* worker type and respect every max_hours (exhaustive enumeration).      *)
C3_CostMinimal ==
    SolvedOptimal =>
        LET returned ==
                SeqSum([i \in 1..Len(df) |->
                    SeqSum([j \in 1..Len(WORKERS) |->
                        PackCost(df, WORKERS, i, j)
                            * choices[df[i].order_id][WORKERS[j].name]])])
            R == Respecting(df, WORKERS)
        IN  /\ R # {}
            /\ \E a \in R : AssignmentCost(a, df, WORKERS) = returned
            /\ \A a \in R : AssignmentCost(a, df, WORKERS) >= returned
            /\ prob.objective = returned

\* an Optimal solve where a capacity limit makes the minimum dearer than the
\* cheapest unconstrained assignment, and some respecting assignment is
\* dearer still
C3_Witness ==
    /\ SolvedOptimal
    /\ \E a \in Assignments(df, WORKERS) :
        AssignmentCost(a, df, WORKERS) < prob.objective
    /\ \E a \in Respecting(df, WORKERS) :
        AssignmentCost(a, df, WORKERS) > prob.objective

(* C4: the worked scenario (item counts [10, 20, 200]; A: 100 items/hr,   *)
(* $10/hr, max_hours 1; B: 10 items/hr, $1/hr, unbounded).  As stated:    *)
(* the solve is Optimal, the 200-item order is assigned to A at a cost of *)
(* $2, the other two orders are assigned to B at a combined cost of $3,   *)
(* and the total cost is $5.                                              *)
InScenario == WORKERS = ScenarioWorkers /\ df = ScenarioOrders /\ SolveDone

\* dollars in the scaled unit of the costs
Dollars(n) == n * Scale(WORKERS)

C4_ScenarioAsStated ==
    InScenario =>
        /\ prob.status = "Optimal"
        /\ Chosen(3) = {1}
        /\ PackCost(df, WORKERS, 3, 1) = Dollars(2)
        /\ Chosen(1) = {2} /\ Chosen(2) = {2}
        /\ PackCost(df, WORKERS, 1, 2) + PackCost(df, WORKERS, 2, 2) = Dollars(3)
        /\ prob.objective = Dollars(5)

(* C4 as amended: in the scenario the solve is Optimal; the 200-item      *)
(* order needs 2 hours on A, more than A's max_hours of 1, so it is       *)
(* assigned to B at a cost of $20; each of the other two orders costs the *)
(* same on A and on B ($1 and $2, $3 combined) and is assigned to either; *)
(* the total cost is $23.                                                 *)
C4_Scenario ==
    InScenario =>
        /\ prob.status = "Optimal"
        /\ Chosen(3) = {2}
        /\ PackCost(df, WORKERS, 3, 2) = Dollars(20)
        /\ \A i \in {1, 2} : \E j \in {1, 2} :
            /\ Chosen(i) = {j}
            /\ PackCost(df, WORKERS, i, j) = Dollars(i)
        /\ prob.objective = Dollars(23)

\* the scenario solved, with the 10-item order on A and the 20-item one on B
C4_Witness ==
    /\ InScenario
    /\ prob.status = "Optimal"
    /\ Chosen(1) = {1}
    /\ Chosen(2) = {2}

(* C5: feasibility, as stated.  For every valid input (positive item      *)
(* counts, positive throughputs) whose total required hours are at most   *)
(* the total available capacity summed over all worker types, the solve   *)
(* returns Optimal.  The required hours are counted at the slowest worker *)
(* type, the reading that asks the most of the input.                     *)
C5_FeasibleAsStated ==
    ( /\ SolveDone
      /\ ValidInput(df, WORKERS)
      /\ TotalItems(df) <= SlowestSpeed(WORKERS) * TotalMaxHours(WORKERS) )
    => prob.status = "Optimal"

(* C5 as amended: for every valid input for which some assignment gives   *)
(* each order to one worker type and keeps every worker type within its   *)
(* max_hours, the solve returns Optimal.                                  *)
C5_Feasible ==
    ( /\ SolveDone
      /\ ValidInput(df, WORKERS)
      /\ Respecting(df, WORKERS) # {} )
    => prob.status = "Optimal"

\* an Optimal solve of a valid input in which every worker type is filled
\* exactly to its max_hours
C5_Witness ==
    /\ SolvedOptimal
    /\ ValidInput(df, WORKERS)
    /\ Len(WORKERS) >= 2
    /\ \A j \in 1..Len(WORKERS) :
        LoadOn(j) > 0 /\ LoadOn(j) = WORKERS[j].max_hours * WORKERS[j].speed

(* C6: infeasibility.  A catalog whose total item-hours strictly exceed   *)
(* the sum of max_hours over all worker types (the hours counted at the   *)
(* fastest worker type, so that every assignment needs more hours than    *)
(* there are) ends with the status Infeasible, which is none of the       *)
(* Optimal, unsolved and error statuses, and the run ends without a       *)
(* crash and without results.                                             *)
Overloaded(d, W) == TotalItems(d) > FastestSpeed(W) * TotalMaxHours(W)

C6_Infeasible ==
    ( /\ entry = "optimize_logistics"
      /\ df # <<>>
      /\ Overloaded(df, WORKERS) )
    => /\ pc # "crashed"
       /\ results = <<>>
       /\ SolveDone =>
            /\ prob.status = "Infeasible"
            /\ prob.status \notin {"Optimal", "Not Solved", "Undefined", "Unbounded"}
            /\ pc # "Extracted"

\* the run of a single order ended Rejected with Infeasible when every
\* worker type has max_hours 0
C6_Witness ==
    /\ pc = "Rejected"
    /\ prob.status = "Infeasible"
    /\ Len(df) = 1
    /\ df[1].num_items > 0
    /\ Len(WORKERS) >= 2
    /\ \A j \in 1..Len(WORKERS) : WORKERS[j].max_hours = 0

(* C7: planning-run state machine.  In every planning run, of             *)
(* optimize_logistics and of main alike, results are extracted only after *)
(* a solve whose status is Optimal; when the status is not Optimal the    *)
(* run ends Rejected, save_results is not called, no assignment is        *)
(* produced and the status is the one the caller holds.  (main never      *)
(* comes to a solve: its call of solve_model raises AttributeError.)      *)
C7_StateMachine ==
    /\ results # <<>> => pc = "Extracted"
    /\ pc = "Extracted" => prob.status = "Optimal" /\ results # <<>>
    /\ (SolveDone /\ prob.status # "Optimal") =>
            /\ results = <<>>
            /\ pc \in {"solved", "Rejected"}
            /\ pc = "solved" => (ENABLED SkipResults /\ ~ENABLED SaveResults)
    /\ pc = "Rejected" =>
            /\ prob.status \in {"Infeasible", "Unbounded", "Undefined"}
            /\ results = <<>>
    /\ entry = "main" => (results = <<>> /\ prob = Unsolved /\ pc # "Extracted")

\* a run of two orders that ended Rejected with the status Infeasible and
\* no results
C7_Witness ==
    /\ pc = "Rejected"
    /\ entry = "optimize_logistics"
    /\ prob.status = "Infeasible"
    /\ Len(df) = 2
    /\ results = <<>>

(* C8: input validation, as stated.  Building the model fails with a      *)
(* ModelConstructionError, before any solver invocation, whenever some    *)
(* order has a non-positive item count, the registry is empty, or two     *)
(* orders share an identifier: the solver is never run on such an input.  *)
InvalidInput(d, W) ==
    \/ \E i \in 1..Len(d) : d[i].num_items <= 0
    \/ Len(W) = 0
    \/ \E i, k \in 1..Len(d) : i # k /\ d[i].order_id = d[k].order_id

C8_ValidationAsStated ==
    (df # <<>> /\ InvalidInput(df, WORKERS)) =>
        /\ ~SolveDone
        /\ pc \in {"optimize_schedule", "solve_model", "crashed"}

(* C9: monotonicity.  For a fixed catalog and two registries that differ  *)
(* only in one worker type's max_hours, the optimal total cost under the  *)
(* larger max_hours is at most the one under the smaller, and a catalog   *)
(* feasible under the smaller stays feasible under the larger.            *)
OneMaxHoursRaised(W0, W1) ==
    /\ Len(W0) = Len(W1)
    /\ \E j \in 1..Len(W0) :
        /\ W1[j].max_hours > W0[j].max_hours
        /\ W1 = [W0 EXCEPT ![j].max_hours = W1[j].max_hours]

C9_Monotone ==
    ( /\ prev.set
      /\ SolveDone
      /\ OneMaxHoursRaised(prev.WORKERS, WORKERS)
      /\ prev.status = "Optimal" )
    => /\ prob.status = "Optimal"
       /\ prob.objective <= prev.objective

\* a second solve, after one worker type got an hour more, that is strictly
\* cheaper than the first
C9_Witness ==
    /\ prev.set
    /\ SolveDone
    /\ OneMaxHoursRaised(prev.WORKERS, WORKERS)
    /\ prev.status = "Optimal"
    /\ prob.status = "Optimal"
    /\ prob.objective < prev.objective

(* C10: extraction.  After an Optimal solve save_results returns exactly  *)
(* one record per input order, in input order, whose assigned_worker is   *)
(* the worker type with variable value > 0.5 for that order and whose     *)
(* cost is (num_items / speed) * wage of that worker; the record costs    *)
(* sum to the objective value of the solved problem.                      *)
C10_Extraction ==
    pc = "Extracted" =>
        /\ Len(results) = Len(df)
        /\ \A i \in 1..Len(df) :
            /\ results[i].order_id = df[i].order_id
            /\ \E j \in 1..Len(WORKERS) :
                /\ results[i].assigned_worker = WORKERS[j].name
                /\ 2 * choices[df[i].order_id][WORKERS[j].name] > 1
                /\ results[i].cost = PackCost(df, WORKERS, i, j)
        /\ SeqSum([i \in 1..Len(results) |-> results[i].cost]) = prob.objective

\* an extraction of two orders, the first on the second worker type and the
\* second on the first
C10_Witness ==
    /\ pc = "Extracted"
    /\ Len(results) = 2
    /\ Len(WORKERS) >= 2
    /\ results[1].assigned_worker = WORKERS[2].name
    /\ results[2].assigned_worker = WORKERS[1].name
    /\ results[1].cost > 0

----------------------------------------------------------------------------
(* save_results called on variable values of any kind: the caller hands   *)
(* it a frame, a status Optimal, and values and an objective that need    *)
(* not come from a solve of that frame.                                   *)

InitExtract ==
    /\ WORKERS \in GenericRegistries
    /\ clean_orders \in ValidCatalogs
    /\ df = clean_orders
    /\ choices \in VarMatrices(df, WORKERS)
    /\ \E off \in {0, 1} :
        prob = [status |-> "Optimal",
                objective |-> Objective(choices, df, WORKERS) + off]
    /\ entry = "save_results"
    /\ pc = "solved"
    /\ stage = 0
    /\ results = <<>>
    /\ prev = NoPrev
    /\ log = <<>>

SpecExtract == InitExtract /\ [][SaveResults]_vars

\* the handed values break a post-condition: an order with no or several
\* selected worker types, a worker type over its max_hours, or a total cost
\* that is not the reported objective
HandedInconsistent ==
    \/ \E i \in 1..Len(df) : Cardinality(Chosen(i)) # 1
    \/ \E j \in 1..Len(WORKERS) : LoadOn(j) > WORKERS[j].max_hours * WORKERS[j].speed
    \/ SeqSum([i \in 1..Len(df) |->
            SeqSum([j \in 1..Len(WORKERS) |->
                IF j \in Chosen(i) THEN PackCost(df, WORKERS, i, j) ELSE 0])])
        # prob.objective

(* C11: post-solve validation, as stated.  Whenever the values handed to  *)
(* the extractor give some order zero or more than one selected worker    *)
(* type, or a worker type more hours than its max_hours, or a total cost  *)
(* different from the objective, extraction raises an error and emits no  *)
(* assignment records.                                                    *)
C11_ValidationAsStated ==
    (pc \in {"Extracted", "crashed"} /\ HandedInconsistent) =>
        /\ pc = "crashed"
        /\ results = <<>>

(* C12: the unbounded-capacity sentinel, as stated.  The finite max_hours *)
(* of the "effectively unlimited" worker type (Junior: 9999 hours at 25   *)
(* items an hour, 249975 items) exceeds total items / speed for every     *)
(* catalog, so its capacity row never makes a catalog infeasible and      *)
(* never changes the optimal cost: under the source's registry every      *)
(* solve is Optimal, at the cost of the cheapest assignment that keeps    *)
(* the other worker types within their max_hours.                         *)
WithinOtherHours(a, d, W) ==
    \A j \in 2..Len(W) :
        SeqSum([i \in 1..Len(d) |-> IF a[i] = j THEN d[i].num_items ELSE 0])
            <= W[j].max_hours * W[j].speed

C12_SentinelAsStated ==
    (WORKERS = DefaultWorkers /\ SolveDone) =>
        /\ prob.status = "Optimal"
        /\ \A a \in Assignments(df, WORKERS) :
            WithinOtherHours(a, df, WORKERS) =>
                prob.objective <= AssignmentCost(a, df, WORKERS)

(* C13: pipeline ordering and fail-stop.  main runs its stages in the     *)
(* fixed order generate_data, setup_db, analyze_corruption, clean_data,   *)
(* optimization, result saving, dashboard, BI export; a stage starts only *)
(* after every earlier stage has completed successfully; a script stage   *)
(* that exits non-zero stops the process with exit code 1, so that no     *)
(* later stage runs; and the PIPELINE FINISHED SUCCESS line is reached    *)
(* only if all stages completed.  (The optimization stage never           *)
(* completes, its call of solve_model raises AttributeError: the stages   *)
(* after it and the success line are reached by no run.)                  *)
StageOrder ==
    << "generate_data", "setup_db", "analyze_corruption", "clean_data",
       "optimization", "result saving", "dashboard", "BI export" >>

\* the positions of the log where a stage starts, and the stages started
StartsIn(l) == {k \in 1..Len(l) : l[k].event = "Running"}
Started(l) == {l[k].stage : k \in StartsIn(l)}
Completed(l) == {l[k].stage : k \in {m \in 1..Len(l) : l[m].event = "completed"}}

C13_OrderAndFailStop ==
    /\ entry # "main" => log = <<>>
    \* the stages started are the first ones of the fixed order, each once
    /\ \E n \in 0..Len(StageOrder) :
        /\ Cardinality(StartsIn(log)) = n
        /\ \A k \in StartsIn(log) :
            log[k].stage = StageOrder[Cardinality({m \in StartsIn(log) : m <= k})]
    \* a stage starts only after every earlier stage completed successfully
    /\ \A k \in StartsIn(log) :
        \A q \in 1..Len(StageOrder) :
            (\E m \in 1..Len(StageOrder) : q < m /\ StageOrder[m] = log[k].stage)
                => \E c \in 1..(k - 1) : log[c] = Line("completed", StageOrder[q])
    \* a failed script is the last thing of the run, which ends with exit code 1
    /\ \A k \in 1..Len(log) :
        log[k].event = "FAILED" => (k = Len(log) /\ pc = "exit1")
    /\ pc = "exit1" =>
        /\ entry = "main"
        /\ log # <<>>
        /\ log[Len(log)] = Line("FAILED", StageOrder[stage])
        /\ df = <<>> /\ results = <<>>
    \* the success line needs every stage completed
    /\ (\E k \in 1..Len(log) : log[k].event = "PIPELINE FINISHED SUCCESS")
        => \A q \in 1..Len(StageOrder) : StageOrder[q] \in Completed(log)

\* main stopped with exit code 1 at its third stage, after the first two
\* completed
C13_Witness ==
    /\ pc = "exit1"
    /\ stage = 3
    /\ log = << Line("Running", "generate_data"), Line("completed", "generate_data"),
                Line("Running", "setup_db"), Line("completed", "setup_db"),
                Line("Running", "analyze_corruption"), Line("FAILED", "analyze_corruption") >>

====
